---- MODULE Spec2Model ----
(***************************************************************************)
(* The useKeibaOracle hook (web/hooks/useKeibaOracle): a mirror of the      *)
(* agent snapshot supplied by useCoAgent, the node-change effect with its   *)
(* pulse timer, the onNodeChange callback registry, sendQuery and reset.    *)
(*                                                                          *)
(* A snapshot is a record with the eleven OracleState fields.  risk_score   *)
(* is kept in tenths (8 stands for 0.8).  Query texts are sequences of      *)
(* characters so that trim() is computed, not assumed.  Time is counted in  *)
(* milliseconds and advances in steps of at most TickMs, never past the     *)
(* expiry of a pending timer.                                               *)
(***************************************************************************)
EXTENDS Integers, Sequences, FiniteSets, TLC

VARIABLES
    phase,          \* "created" (before the first effect flush), "mounted", "unmounted"
    state,          \* the snapshot useCoAgent currently supplies
    running,        \* the running flag useCoAgent currently supplies
    previousNode,   \* previousNode.current
    pulsingNode,    \* the pulsingNode React state
    timers,         \* pending setTimeout timers: records [id, remaining]
    cleanup,        \* timer id held by the node-change effect's cleanup, or NoCleanup
    callbacks,      \* onNodeChangeCallbacks.current: entries in insertion order
    handles,        \* unsubscribe closures returned so far: handles[h] is the captured callback
    called,         \* unsubscribe closures that have been called at least once
    bc,             \* the forEach broadcast in progress, if any
    outbox,         \* setState(...) and run() calls issued to useCoAgent, not yet processed by it
    age,            \* ms since the latest detected node change (-1: none since mount/reset)
    last,           \* the hook operation the latest step performed, with its argument
    inst,           \* two hook instances side by side: inst[i] holds the refs and state of instance i
    localPulse,     \* NodeGraph: the localPulse React state
    localTimers     \* NodeGraph: ms left on the timeouts its callback started, oldest first

\* what lies outside the single hook instance
ext == <<inst, localPulse, localTimers>>

vars == <<phase, state, running, previousNode, pulsingNode, timers, cleanup,
          callbacks, handles, called, bc, outbox, age, last,
          inst, localPulse, localTimers>>

----------------------------------------------------------------------------
\* Bounds of the model

TicksPerDecay == 2      \* clock steps per pulse interval
MaxHandles == 2         \* onNodeChange calls over the hook's lifetime
MaxOutbox == 2          \* setState/run calls awaiting the agent
MaxPatched == 2         \* fields of a pushed snapshot that are missing or unusual
MaxSubmitted == 2       \* Dashboard submits whose calls await the agent
MaxLocalTimers == 2     \* NodeGraph timers pending at once

\* Program constants

PULSE_MS == 1000

TickMs == PULSE_MS \div TicksPerDecay
AgeCap == PULSE_MS + TickMs

----------------------------------------------------------------------------
\* Values

Null == "null"
Undefined == "undefined"
Empty == "empty"
NoCleanup == 0

NodeType == {"scout", "strategist", "auditor", "idle"}

\* what the active_node field of an incoming snapshot may hold: a NodeType,
\* nothing, or a string outside NodeType
RawNodes == NodeType \cup {Undefined, "unknown"}

Callbacks == {"cbA", "cbB"}

DEFAULT_STATE ==
    [ active_node          |-> "idle",
      reasoning_trace      |-> <<>>,
      scout_data           |-> Null,
      strategy_draft       |-> Null,
      risk_score           |-> 0,
      requires_backtrack   |-> FALSE,
      backtrack_reason     |-> Null,
      backtrack_count      |-> 0,
      query                |-> <<>>,
      tool_calls           |-> <<>>,
      final_recommendation |-> Null ]

\* a snapshot of a run in progress, as the agent pushes it
RUN_STATE ==
    [ active_node          |-> "auditor",
      reasoning_trace      |-> <<"step">>,
      scout_data           |-> "scout_data",
      strategy_draft       |-> "strategy_draft",
      risk_score           |-> 8,
      requires_backtrack   |-> TRUE,
      backtrack_reason     |-> "High risk",
      backtrack_count      |-> 1,
      query                |-> <<"a">>,
      tool_calls           |-> <<"call">>,
      final_recommendation |-> "recommendation" ]

\* what the agent may push: the initial state, or the state of a run at any node
RemoteSnapshots ==
    {DEFAULT_STATE} \cup { [RUN_STATE EXCEPT !.active_node = n] : n \in RawNodes }

\* the texts given to sendQuery
Texts == { <<>>, <<" ">>, <<" ", " ">>, <<" ", "a", " ", "b", " ">> }

----------------------------------------------------------------------------
\* Pure helpers

\* String.prototype.trim
RECURSIVE TrimStart(_)
TrimStart(t) ==
    IF t = <<>> THEN <<>>
    ELSE IF Head(t) = " " THEN TrimStart(Tail(t)) ELSE t

RECURSIVE TrimEnd(_)
TrimEnd(t) ==
    IF t = <<>> THEN <<>>
    ELSE IF t[Len(t)] = " " THEN TrimEnd(SubSeq(t, 1, Len(t) - 1)) ELSE t

Trim(t) == TrimEnd(TrimStart(t))

\* state?.active_node || "idle"
CurrentNode(s) == IF s.active_node = Undefined THEN "idle" ELSE s.active_node

\* the dependency array [state?.active_node] compared with Object.is
DepsChanged(old, new) == old.active_node # new.active_node

\* variants of the comparison: the guard left out; transitions to idle ignored
NodeChangedAlways(cur, prev) == TRUE
NodeChangedNotIdle(cur, prev) == cur # prev /\ cur # "idle"

\* currentNode !== previousNode.current
NodeChanged(cur, prev) == cur # prev

\* variant of clearTimeout: the timer is left pending
ClearTimeoutNothing(ts, id) == ts

\* clearTimeout(id)
ClearTimeout(ts, id) == { t \in ts : t.id # id }

\* the id setTimeout returns: ids are named by the pending timers only, since
\* the one holder of an id, the effect's cleanup, is replaced whenever a timer
\* is started
FreshId(ts) ==
    CHOOSE i \in 1..(Cardinality(ts) + 1) :
        /\ \A t \in ts : t.id # i
        /\ \A j \in 1..(i - 1) : \E t \in ts : t.id = j

\* Set.prototype.has / add / delete on the entry list; a deleted entry leaves
\* an empty slot that forEach skips, and the list is compacted between
\* iterations.  (SetDeleteNothing: a delete that finds nothing to remove, as
\* when a wrapper of the callback was stored.)
SetDeleteNothing(es, c) == es
SetHas(es, c) == \E i \in 1..Len(es) : es[i] = c
SetAdd(es, c) == IF SetHas(es, c) THEN es ELSE Append(es, c)
SetDelete(es, c) == [i \in 1..Len(es) |-> IF es[i] = c THEN Empty ELSE es[i]]
Compact(es) == SelectSeq(es, LAMBDA e : e # Empty)

\* first live entry of es at index >= i, or 0
NextLive(es, i) ==
    IF \E j \in i..Len(es) : es[j] # Empty
    THEN CHOOSE j \in i..Len(es) : es[j] # Empty /\ \A k \in i..(j - 1) : es[k] = Empty
    ELSE 0

Min(a, b) == IF a < b THEN a ELSE b

----------------------------------------------------------------------------
\* Initial state: the hook has rendered once, its effects have not run yet

\* last, after a step of the environment (the clock, a timer, the agent)
NoOp == [op |-> "none", arg |-> <<>>]

\* no forEach in progress
NoBroadcast == [active |-> FALSE, node |-> Null, idx |-> 0, start |-> <<>>, invoked |-> <<>>]

\* the refs and state of a hook instance that has rendered once
FreshLocal ==
    [ previousNode |-> Null,
      pulsingNode  |-> Null,
      timers       |-> {},
      cleanup      |-> NoCleanup,
      callbacks    |-> <<>> ]

Instances == {1, 2}

Init ==
    /\ inst = [i \in Instances |-> FreshLocal]
    /\ localPulse = Null
    /\ localTimers = <<>>
    /\ phase = "created"
    /\ state \in RemoteSnapshots
    /\ running = FALSE
    /\ previousNode = Null
    /\ pulsingNode = Null
    /\ timers = {}
    /\ cleanup = NoCleanup
    /\ callbacks = <<>>
    /\ handles = <<>>
    /\ called = {}
    /\ bc = NoBroadcast
    /\ outbox = <<>>
    /\ age = -1
    /\ last = [op |-> "render", arg |-> <<>>]

----------------------------------------------------------------------------
\* The node-change effect

\* the forEach over the registered callbacks es starts; with none registered
\* it is over at once
StartBroadcast(node, es) ==
    IF es = <<>> THEN NoBroadcast
    ELSE [active |-> TRUE, node |-> node, idx |-> 1, start |-> es, invoked |-> <<>>]

\* A commit of a render with snapshot s, followed by the effect flush.
\* first: the mount, where the effect runs whatever the dependencies.
Commit(s, first) ==
    LET rerun == first \/ DepsChanged(state, s)
        swept == IF cleanup # NoCleanup THEN ClearTimeout(timers, cleanup) ELSE timers
        cur   == CurrentNode(s)
        id    == FreshId(swept)
    IN  /\ state' = s
        /\ IF ~rerun
           THEN UNCHANGED <<previousNode, pulsingNode, timers, cleanup, bc, age>>
           ELSE IF NodeChanged(cur, previousNode)
           THEN /\ previousNode' = cur
                /\ pulsingNode' = cur
                /\ timers' = swept \cup {[id |-> id, remaining |-> PULSE_MS]}
                /\ cleanup' = id
                /\ bc' = StartBroadcast(cur, callbacks)
                /\ age' = 0
           ELSE /\ timers' = swept
                /\ cleanup' = NoCleanup
                /\ UNCHANGED <<previousNode, pulsingNode, bc, age>>

Idle == phase = "mounted" /\ ~bc.active

Mount ==
    /\ phase = "created"
    /\ phase' = "mounted"
    /\ Commit(state, TRUE)
    /\ last' = [op |-> "mount", arg |-> <<>>]
    /\ UNCHANGED <<running, callbacks, handles, called, outbox>>

\* the agent pushes snapshot s
Deliver(s) ==
    /\ Idle
    /\ Commit(s, FALSE)
    /\ last' = [op |-> "deliver", arg |-> <<>>]
    /\ UNCHANGED <<phase, running, callbacks, handles, called, outbox>>

----------------------------------------------------------------------------
\* Time

NextDue == IF timers = {} THEN TickMs
           ELSE CHOOSE r \in {t.remaining : t \in timers} :
                    \A t \in timers : r <= t.remaining

Tick ==
    /\ ~bc.active
    /\ \A t \in timers : t.remaining > 0
    /\ LET d == Min(TickMs, NextDue)
       IN  /\ timers' = { [t EXCEPT !.remaining = @ - d] : t \in timers }
           /\ age' = IF age < 0 THEN age ELSE Min(age + d, AgeCap)
    /\ last' = NoOp
    /\ UNCHANGED <<phase, state, running, previousNode, pulsingNode, cleanup,
                   callbacks, handles, called, bc, outbox>>

\* () => setPulsingNode(null)
TimerFire ==
    /\ ~bc.active
    /\ \E t \in timers :
        /\ t.remaining = 0
        /\ timers' = timers \ {t}
    /\ pulsingNode' = Null
    /\ last' = NoOp
    /\ UNCHANGED <<phase, state, running, previousNode, cleanup,
                   callbacks, handles, called, bc, outbox, age>>

----------------------------------------------------------------------------
\* The callback registry

\* Callback functions are interchangeable: the first one ever registered is
\* called cbA, the next new one cbB
Nameable(cb) == cb = "cbA" \/ \E h \in 1..Len(handles) : handles[h] = "cbA"

\* onNodeChange(callback): add it and return the closure that deletes it
OnNodeChange(cb) ==
    /\ Idle
    /\ Len(handles) < MaxHandles
    /\ Nameable(cb)
    /\ callbacks' = SetAdd(callbacks, cb)
    /\ handles' = Append(handles, cb)
    /\ last' = [op |-> "onNodeChange", arg |-> cb]
    /\ UNCHANGED <<phase, state, running, previousNode, pulsingNode, timers, cleanup,
                   called, bc, outbox, age>>

\* the closure returned by the h-th onNodeChange call
Unsubscribe(h) ==
    /\ Idle
    /\ h \in 1..Len(handles)
    /\ callbacks' = Compact(SetDelete(callbacks, handles[h]))
    /\ called' = called \cup {h}
    /\ last' = [op |-> "unsubscribe", arg |-> h]
    /\ UNCHANGED <<phase, state, running, previousNode, pulsingNode, timers, cleanup,
                   handles, bc, outbox, age>>

\* What a callback may do while it is being invoked
Behaviours ==
    {<<"none", 0>>}
        \cup { <<"unsubscribe", h>> : h \in 1..MaxHandles }
        \cup { <<"onNodeChange", c>> : c \in Callbacks }

\* the entry list after the invoked callback did b
EntriesAfter(es, b) ==
    IF b[1] = "unsubscribe" THEN SetDelete(es, handles[b[2]])
    ELSE IF b[1] = "onNodeChange" THEN SetAdd(es, b[2])
    ELSE es

\* forEach invokes the entry at bc.idx and moves to the next live entry,
\* entries appended meanwhile included
InvokeCallback(b) ==
    /\ phase = "mounted"
    /\ bc.active
    /\ b[1] = "unsubscribe" => b[2] \in 1..Len(handles)
    /\ b[1] = "onNodeChange" => Len(handles) < MaxHandles /\ Nameable(b[2])
    /\ LET cb  == callbacks[bc.idx]
           es  == EntriesAfter(callbacks, b)
           nxt == NextLive(es, bc.idx + 1)
       IN  /\ bc' = IF nxt = 0 THEN NoBroadcast
                     ELSE [bc EXCEPT !.invoked = Append(@, cb), !.idx = nxt]
           /\ callbacks' = IF nxt = 0 THEN Compact(es) ELSE es
           /\ last' = [op |-> "callback", arg |-> cb]
    /\ handles' = IF b[1] = "onNodeChange" THEN Append(handles, b[2]) ELSE handles
    /\ called' = IF b[1] = "unsubscribe" THEN called \cup {b[2]} ELSE called
    /\ UNCHANGED <<phase, state, running, previousNode, pulsingNode, timers, cleanup,
                   outbox, age>>

----------------------------------------------------------------------------
\* sendQuery and reset

SetStateCall(s) == [op |-> "setState", value |-> s]
RunCall == [op |-> "run", value |-> <<>>]

\* variant of the guard: the text is not trimmed before the test
IsBlankNoTrim(query) == query = <<>>

\* !query.trim()
IsBlank(query) == Trim(query) = <<>>

\* variants of sendQuery: the current snapshot is spread instead of
\* DEFAULT_STATE; run() is called before setState
SendQueryCallsKeepState(query) ==
    << SetStateCall([state EXCEPT !.query = Trim(query)]), RunCall >>
SendQueryCallsRunFirst(query) ==
    << RunCall, SetStateCall([DEFAULT_STATE EXCEPT !.query = Trim(query)]) >>

\* the calls sendQuery makes on the agent, in order
SendQueryCalls(query) ==
    << SetStateCall([DEFAULT_STATE EXCEPT !.query = Trim(query)]), RunCall >>

\* variant of reset: it also starts a run
ResetCallsWithRun == << SetStateCall(DEFAULT_STATE), RunCall >>

\* the calls reset makes on the agent
ResetCalls == << SetStateCall(DEFAULT_STATE) >>

\* variant of sendQuery: it also clears the memory and the pulse, as reset does
SendQueryAsReset(query) ==
    /\ Idle
    /\ IF IsBlank(query)
       THEN UNCHANGED <<outbox, previousNode, pulsingNode>>
       ELSE /\ Len(outbox) + Len(SendQueryCalls(query)) <= MaxOutbox
            /\ outbox' = outbox \o SendQueryCalls(query)
            /\ previousNode' = Null
            /\ pulsingNode' = Null
    /\ last' = [op |-> "sendQuery", arg |-> query]
    /\ UNCHANGED <<phase, state, running, timers, cleanup,
                   callbacks, handles, called, bc, age>>

SendQuery(query) ==
    /\ Idle
    /\ IF IsBlank(query)
       THEN UNCHANGED outbox
       ELSE /\ Len(outbox) + Len(SendQueryCalls(query)) <= MaxOutbox
            /\ outbox' = outbox \o SendQueryCalls(query)
    /\ last' = [op |-> "sendQuery", arg |-> query]
    /\ UNCHANGED <<phase, state, running, previousNode, pulsingNode, timers, cleanup,
                   callbacks, handles, called, bc, age>>

\* variants of reset: setPulsingNode(null) left out; a memory found cleared is
\* set back to the current stage
ResetPulseKeep(pulse) == pulse
ResetPreviousRestore(prev) == IF prev = Null THEN CurrentNode(state) ELSE Null

\* what reset leaves in previousNode.current and pulsingNode
ResetPrevious(prev) == Null
ResetPulse(pulse) == Null

\* variant of reset: it also empties the callback registry
ResetClearsRegistry ==
    /\ Idle
    /\ Len(outbox) + Len(ResetCalls) <= MaxOutbox
    /\ outbox' = outbox \o ResetCalls
    /\ previousNode' = ResetPrevious(previousNode)
    /\ pulsingNode' = ResetPulse(pulsingNode)
    /\ callbacks' = <<>>
    /\ age' = -1
    /\ last' = [op |-> "reset", arg |-> <<>>]
    /\ UNCHANGED <<phase, state, running, timers, cleanup, handles, called, bc>>

Reset ==
    /\ Idle
    /\ Len(outbox) + Len(ResetCalls) <= MaxOutbox
    /\ outbox' = outbox \o ResetCalls
    /\ previousNode' = ResetPrevious(previousNode)
    /\ pulsingNode' = ResetPulse(pulsingNode)
    /\ age' = -1
    /\ last' = [op |-> "reset", arg |-> <<>>]
    /\ UNCHANGED <<phase, state, running, timers, cleanup, callbacks, handles, called, bc>>

----------------------------------------------------------------------------
\* The agent binding (useCoAgent) takes the issued calls in order

\* a setState call takes effect: the hook re-renders with the written snapshot
ApplySetState ==
    /\ Idle
    /\ outbox # <<>>
    /\ Head(outbox).op = "setState"
    /\ Commit(Head(outbox).value, FALSE)
    /\ outbox' = Tail(outbox)
    /\ last' = [op |-> "applySetState", arg |-> <<>>]
    /\ UNCHANGED <<phase, running, callbacks, handles, called>>

\* a run call takes effect: the agent is running
StartRun ==
    /\ ~bc.active
    /\ outbox # <<>>
    /\ Head(outbox).op = "run"
    /\ outbox' = Tail(outbox)
    /\ running' = TRUE
    /\ last' = NoOp
    /\ UNCHANGED <<phase, state, previousNode, pulsingNode, timers, cleanup,
                   callbacks, handles, called, bc, age>>

\* what a rejected run() may carry
Errors == {"errA", "errB"}

Resolved(v) == [kind |-> "resolved", value |-> v]
Rejected(e) == [kind |-> "rejected", value |-> e]

\* variant of sendQuery: try { await run() } catch {}
SendQuerySwallows(o) == Resolved(Undefined)

\* how the promise sendQuery returned settles when its await run() settles
\* with o: no try/catch surrounds the await and nothing is returned after it
SendQuerySettles(o) == IF o.kind = "rejected" THEN o ELSE Resolved(Undefined)

\* last, after the run in flight settled with o
Settled(o) == [op |-> "settle", arg |-> [run |-> o, sendQuery |-> SendQuerySettles(o)]]

\* the run in flight completes: run() resolves
RunComplete ==
    /\ ~bc.active
    /\ running
    /\ running' = FALSE
    /\ last' = Settled(Resolved(Undefined))
    /\ UNCHANGED <<phase, state, previousNode, pulsingNode, timers, cleanup,
                   callbacks, handles, called, bc, outbox, age>>

\* the run in flight fails: run() rejects with e
RunFail(e) ==
    /\ ~bc.active
    /\ running
    /\ running' = FALSE
    /\ last' = Settled(Rejected(e))
    /\ UNCHANGED <<phase, state, previousNode, pulsingNode, timers, cleanup,
                   callbacks, handles, called, bc, outbox, age>>

----------------------------------------------------------------------------
\* Unmount: React runs the effect's cleanup, if the latest run returned one

Unmount ==
    /\ Idle
    /\ phase' = "unmounted"
    /\ timers' = IF cleanup # NoCleanup THEN ClearTimeout(timers, cleanup) ELSE timers
    /\ cleanup' = NoCleanup
    /\ age' = -1
    /\ last' = [op |-> "unmount", arg |-> <<>>]
    /\ UNCHANGED <<state, running, previousNode, pulsingNode, callbacks, handles, called,
                   bc, outbox>>

----------------------------------------------------------------------------
\* The view the hook returns

\* variant of isActive: the fallback to "idle" left out
IsActiveRaw(s) == s.active_node # "idle"

\* (state?.active_node || "idle") !== "idle"
IsActive(s) == (IF s.active_node = Undefined THEN "idle" ELSE s.active_node) # "idle"

\* useCoAgent is given initialState, so the snapshot is an object on every
\* render and state || DEFAULT_STATE is the snapshot
View ==
    [ state       |-> state,
      isLoading   |-> running,
      isActive    |-> IsActive(state),
      currentNode |-> CurrentNode(state),
      pulsingNode |-> pulsingNode ]

\* The raw sub-fields of the view (reasoningTrace, toolCalls, scoutData,
\* strategyDraft, riskScore, finalRecommendation, requiresBacktrack,
\* backtrackReason, backtrackCount), under the names the snapshot gives them
RawFields ==
    { "reasoning_trace", "tool_calls", "scout_data", "strategy_draft", "risk_score",
      "final_recommendation", "requires_backtrack", "backtrack_reason", "backtrack_count" }

\* whether v, a value of field f, is falsy: 0, false, null and the empty
\* string are; an array is not
Falsy(f, v) ==
    CASE f \in {"risk_score", "backtrack_count"} -> v = 0
      [] f = "requires_backtrack" -> v = FALSE
      [] f \in {"reasoning_trace", "tool_calls"} -> FALSE
      [] OTHER -> v \in {Null, ""}

\* the literal to the right of || in the view's expression for field f
Fallback(f) ==
    CASE f \in {"risk_score", "backtrack_count"} -> 0
      [] f = "requires_backtrack" -> FALSE
      [] f \in {"reasoning_trace", "tool_calls"} -> <<>>
      [] OTHER -> Null

\* variant of the fallback: one missing field makes every field fall back
FieldOrWhole(s, f) ==
    IF RawFields \subseteq DOMAIN s /\ ~Falsy(f, s[f]) THEN s[f] ELSE Fallback(f)

\* state?.f || fallback
FieldOr(s, f) ==
    IF f \in DOMAIN s /\ ~Falsy(f, s[f]) THEN s[f] ELSE Fallback(f)

RawView(s) == [f \in RawFields |-> FieldOr(s, f)]

----------------------------------------------------------------------------

Next ==
    \/ Mount /\ UNCHANGED ext
    \/ \E s \in RemoteSnapshots : Deliver(s) /\ UNCHANGED ext
    \/ Tick /\ UNCHANGED ext
    \/ TimerFire /\ UNCHANGED ext
    \/ \E cb \in Callbacks : OnNodeChange(cb) /\ UNCHANGED ext
    \/ \E h \in 1..MaxHandles : Unsubscribe(h) /\ UNCHANGED ext
    \/ \E b \in Behaviours : InvokeCallback(b) /\ UNCHANGED ext
    \/ \E query \in Texts : SendQuery(query) /\ UNCHANGED ext
    \/ Reset /\ UNCHANGED ext
    \/ ApplySetState /\ UNCHANGED ext
    \/ StartRun /\ UNCHANGED ext
    \/ RunComplete /\ UNCHANGED ext
    \/ \E e \in Errors : RunFail(e) /\ UNCHANGED ext
    \/ Unmount /\ UNCHANGED ext

Spec == Init /\ [][Next]_vars

\* The behaviours in which, once mounted, the hook sees no transition, no
\* reset() and no unmount: every snapshot it is handed has the active stage of
\* the one before.  Time advances and a due timer fires (setTimeout).
SameStage(s) == CurrentNode(s) = CurrentNode(state)

QuietNext ==
    \/ Mount /\ UNCHANGED ext
    \/ \E s \in RemoteSnapshots : SameStage(s) /\ Deliver(s) /\ UNCHANGED ext
    \/ Tick /\ UNCHANGED ext
    \/ TimerFire /\ UNCHANGED ext
    \/ \E cb \in Callbacks : OnNodeChange(cb) /\ UNCHANGED ext
    \/ \E h \in 1..MaxHandles : Unsubscribe(h) /\ UNCHANGED ext
    \/ \E query \in Texts : SendQuery(query) /\ UNCHANGED ext
    \/ /\ outbox # <<>>
       /\ Head(outbox).op = "setState"
       /\ SameStage(Head(outbox).value)
       /\ ApplySetState
       /\ UNCHANGED ext
    \/ StartRun /\ UNCHANGED ext
    \/ RunComplete /\ UNCHANGED ext
    \/ \E e \in Errors : RunFail(e) /\ UNCHANGED ext

QuietSpec ==
    /\ Init
    /\ [][QuietNext]_vars
    /\ WF_vars(Tick /\ UNCHANGED ext)
    /\ WF_vars(TimerFire /\ UNCHANGED ext)

\* Snapshots with missing or unusual fields.  Option 0 of a field leaves it
\* out; the others give it a falsy, an empty or an ordinary value.
FieldOption(f, k) ==
    CASE f = "reasoning_trace"      -> IF k = 1 THEN <<>> ELSE <<"step">>
      [] f = "tool_calls"           -> IF k = 1 THEN <<>> ELSE <<"call">>
      [] f = "scout_data"           -> IF k = 1 THEN Null ELSE "scout_data"
      [] f = "strategy_draft"       -> IF k = 1 THEN Null ELSE "strategy_draft"
      [] f = "risk_score"           -> IF k = 1 THEN 0 ELSE 8
      [] f = "requires_backtrack"   -> IF k = 1 THEN FALSE ELSE TRUE
      [] f = "backtrack_count"      -> IF k = 1 THEN 0 ELSE 1
      [] f = "backtrack_reason"     -> IF k = 1 THEN Null ELSE IF k = 2 THEN "" ELSE "High risk"
      [] f = "final_recommendation" -> IF k = 1 THEN Null ELSE IF k = 2 THEN "" ELSE "recommendation"

\* RUN_STATE with the fields in P set as c says
Patched(P, c) ==
    [ f \in (DOMAIN RUN_STATE) \ { g \in P : c[g] = 0 } |->
          IF f \in P THEN FieldOption(f, c[f]) ELSE RUN_STATE[f] ]

PartialSnapshots ==
    UNION { { Patched(P, c) : c \in [P -> 0..3] } :
                P \in { Q \in SUBSET RawFields : Cardinality(Q) <= MaxPatched } }

\* The hook under snapshots of any shape
ViewNext ==
    \/ Mount /\ UNCHANGED ext
    \/ \E s \in PartialSnapshots : Deliver(s) /\ UNCHANGED ext
    \/ Reset /\ UNCHANGED ext
    \/ ApplySetState /\ UNCHANGED ext

ViewSpec == Init /\ [][ViewNext]_vars

\* Dashboard.  handleSubmit sees the isLoading of the latest render; every
\* change of the running flag re-renders, so that is the current view's.  The
\* text is what the input holds when the form is submitted; sendQuery
\* repeats the test for a blank text.
Submit(text) ==
    /\ Idle
    /\ IF ~IsBlank(text) /\ ~View.isLoading
       THEN /\ Len(outbox) + Len(SendQueryCalls(text)) <= 2 * MaxSubmitted
            /\ outbox' = outbox \o SendQueryCalls(text)
       ELSE UNCHANGED outbox
    /\ last' = [op |-> "submit", arg |-> text]
    /\ UNCHANGED <<phase, state, running, previousNode, pulsingNode, timers, cleanup,
                   callbacks, handles, called, bc, age>>

DashNext ==
    \/ Mount /\ UNCHANGED ext
    \/ \E s \in RemoteSnapshots : Deliver(s) /\ UNCHANGED ext
    \/ \E text \in Texts : Submit(text) /\ UNCHANGED ext
    \/ ApplySetState /\ UNCHANGED ext
    \/ StartRun /\ UNCHANGED ext
    \/ RunComplete /\ UNCHANGED ext
    \/ \E e \in Errors : RunFail(e) /\ UNCHANGED ext
    \/ Tick /\ UNCHANGED ext
    \/ TimerFire /\ UNCHANGED ext

DashSpec == Init /\ [][DashNext]_vars

----------------------------------------------------------------------------
\* Two hook instances on one agent (Dashboard's and NodeGraph's): the snapshot
\* and the calls on the agent are shared, the refs and the pulse belong to
\* each instance.  inst[i] holds the refs and state of instance i; callbacks
\* here do nothing when invoked, so a broadcast leaves no trace.

hook == <<previousNode, pulsingNode, timers, cleanup, callbacks, handles, called, bc, age>>

\* variant: the refs and the pulse are module-level, one cell for all instances
CellShared(i) == 1

\* the cell that useRef / useState give instance i
Cell(i) == i

\* the node-change effect of one instance with refs l, after a render that
\* replaced snapshot old by s
EffectRun(l, old, s, first) ==
    LET rerun == first \/ DepsChanged(old, s)
        swept == IF l.cleanup # NoCleanup THEN ClearTimeout(l.timers, l.cleanup) ELSE l.timers
        cur   == CurrentNode(s)
        id    == FreshId(swept)
    IN  IF ~rerun THEN l
        ELSE IF NodeChanged(cur, l.previousNode)
        THEN [l EXCEPT !.previousNode = cur,
                       !.pulsingNode = cur,
                       !.timers = swept \cup {[id |-> id, remaining |-> PULSE_MS]},
                       !.cleanup = id]
        ELSE [l EXCEPT !.timers = swept, !.cleanup = NoCleanup]

\* both instances render snapshot s in one commit; their effects run in order
TwoCommit(s, first) ==
    LET m == [inst EXCEPT ![Cell(1)] = EffectRun(inst[Cell(1)], state, s, first)]
    IN  /\ inst' = [m EXCEPT ![Cell(2)] = EffectRun(m[Cell(2)], state, s, first)]
        /\ state' = s

TwoMount ==
    /\ phase = "created"
    /\ phase' = "mounted"
    /\ TwoCommit(state, TRUE)
    /\ last' = [op |-> "mount", arg |-> <<>>]
    /\ UNCHANGED <<running, outbox, hook, localPulse, localTimers>>

TwoDeliver(s) ==
    /\ phase = "mounted"
    /\ TwoCommit(s, FALSE)
    /\ last' = [op |-> "deliver", arg |-> <<>>]
    /\ UNCHANGED <<phase, running, outbox, hook, localPulse, localTimers>>

TwoApplySetState ==
    /\ phase = "mounted"
    /\ outbox # <<>>
    /\ Head(outbox).op = "setState"
    /\ TwoCommit(Head(outbox).value, FALSE)
    /\ outbox' = Tail(outbox)
    /\ last' = [op |-> "applySetState", arg |-> <<>>]
    /\ UNCHANGED <<phase, running, hook, localPulse, localTimers>>

TwoTimers == UNION { inst[i].timers : i \in Instances }

TwoTick ==
    /\ phase = "mounted"
    /\ TwoTimers # {}
    /\ \A t \in TwoTimers : t.remaining > 0
    /\ LET d == Min(TickMs, CHOOSE r \in {t.remaining : t \in TwoTimers} :
                                \A t \in TwoTimers : r <= t.remaining)
       IN  inst' = [i \in Instances |->
                     [inst[i] EXCEPT !.timers = { [t EXCEPT !.remaining = @ - d] : t \in @ }]]
    /\ last' = NoOp
    /\ UNCHANGED <<phase, state, running, outbox, hook, localPulse, localTimers>>

\* () => setPulsingNode(null) of instance i
TwoTimerFire(i) ==
    /\ \E t \in inst[Cell(i)].timers :
        /\ t.remaining = 0
        /\ inst' = [inst EXCEPT ![Cell(i)] =
                        [@ EXCEPT !.timers = @ \ {t}, !.pulsingNode = Null]]
    /\ last' = NoOp
    /\ UNCHANGED <<phase, state, running, outbox, hook, localPulse, localTimers>>

TwoReset(i) ==
    /\ phase = "mounted"
    /\ Len(outbox) + Len(ResetCalls) <= MaxOutbox
    /\ outbox' = outbox \o ResetCalls
    /\ inst' = [inst EXCEPT ![Cell(i)] =
                    [@ EXCEPT !.previousNode = ResetPrevious(@),
                              !.pulsingNode = ResetPulse(@)]]
    /\ last' = [op |-> "reset", arg |-> <<i>>]
    /\ UNCHANGED <<phase, state, running, hook, localPulse, localTimers>>

TwoOnNodeChange(i, cb) ==
    /\ phase = "mounted"
    /\ inst' = [inst EXCEPT ![Cell(i)] = [@ EXCEPT !.callbacks = SetAdd(@, cb)]]
    /\ last' = [op |-> "onNodeChange", arg |-> <<i, cb>>]
    /\ UNCHANGED <<phase, state, running, outbox, hook, localPulse, localTimers>>

\* the closure that an earlier onNodeChange(cb) of instance i returned
TwoUnsubscribe(i, cb) ==
    /\ phase = "mounted"
    /\ SetHas(inst[Cell(i)].callbacks, cb)
    /\ inst' = [inst EXCEPT ![Cell(i)] =
                    [@ EXCEPT !.callbacks = Compact(SetDelete(@, cb))]]
    /\ last' = [op |-> "unsubscribe", arg |-> <<i, cb>>]
    /\ UNCHANGED <<phase, state, running, outbox, hook, localPulse, localTimers>>

TwoNext ==
    \/ TwoMount
    \/ \E s \in RemoteSnapshots : TwoDeliver(s)
    \/ TwoApplySetState
    \/ TwoTick
    \/ \E i \in Instances : TwoTimerFire(i)
    \/ \E i \in Instances : TwoReset(i)
    \/ \E i \in Instances, cb \in Callbacks : TwoOnNodeChange(i, cb)
    \/ \E i \in Instances, cb \in Callbacks : TwoUnsubscribe(i, cb)

TwoSpec == Init /\ [][TwoNext]_vars

----------------------------------------------------------------------------
\* NodeGraph: its hook instance (the single-instance variables), the callback
\* it subscribes in an effect of its own, localPulse, and the timers that
\* callback starts.  localTimers holds the remaining delays, oldest first: all
\* are started with the same delay, so they fire in the order started.

\* the effects of the first commit: the hook's node-change effect, declared
\* first, then the subscription
GraphMount ==
    /\ phase = "created"
    /\ phase' = "mounted"
    /\ Commit(state, TRUE)
    /\ callbacks' = SetAdd(callbacks, "cbA")
    /\ handles' = Append(handles, "cbA")
    /\ last' = [op |-> "mount", arg |-> <<>>]
    /\ UNCHANGED <<running, called, outbox, ext>>

\* forEach invokes NodeGraph's callback: setLocalPulse(node), then a timer
\* whose canceller is returned to forEach, which drops it
GraphCallback ==
    /\ InvokeCallback(<<"none", 0>>)
    /\ localPulse' = bc.node
    /\ localTimers' = Append(localTimers, PULSE_MS)
    /\ UNCHANGED inst

GraphTick ==
    /\ ~bc.active
    /\ \A t \in timers : t.remaining > 0
    /\ \A k \in 1..Len(localTimers) : localTimers[k] > 0
    /\ LET d == Min(Min(TickMs, NextDue),
                    IF localTimers = <<>> THEN TickMs ELSE localTimers[1])
       IN  /\ timers' = { [t EXCEPT !.remaining = @ - d] : t \in timers }
           /\ localTimers' = [k \in 1..Len(localTimers) |-> localTimers[k] - d]
           /\ age' = IF age < 0 THEN age ELSE Min(age + d, AgeCap)
    /\ last' = NoOp
    /\ UNCHANGED <<phase, state, running, previousNode, pulsingNode, cleanup,
                   callbacks, handles, called, bc, outbox, inst, localPulse>>

\* () => setLocalPulse(null)
LocalTimerFire ==
    /\ ~bc.active
    /\ localTimers # <<>>
    /\ Head(localTimers) = 0
    /\ localTimers' = Tail(localTimers)
    /\ localPulse' = Null
    /\ last' = [op |-> "localTimer", arg |-> <<>>]
    /\ UNCHANGED <<phase, state, running, previousNode, pulsingNode, timers, cleanup,
                   callbacks, handles, called, bc, outbox, age, inst>>

\* the cleanups of both effects: clearTimeout of the hook's timer, unsubscribe
GraphUnmount ==
    /\ Idle
    /\ phase' = "unmounted"
    /\ timers' = IF cleanup # NoCleanup THEN ClearTimeout(timers, cleanup) ELSE timers
    /\ cleanup' = NoCleanup
    /\ callbacks' = Compact(SetDelete(callbacks, "cbA"))
    /\ called' = called \cup {1}
    /\ age' = -1
    /\ last' = [op |-> "unmount", arg |-> <<>>]
    /\ UNCHANGED <<state, running, previousNode, pulsingNode, handles, bc, outbox, ext>>

\* localPulse || pulsingNode
ActivePulse == IF localPulse # Null THEN localPulse ELSE pulsingNode

GraphNext ==
    \/ GraphMount
    \/ \E s \in RemoteSnapshots :
          Len(localTimers) < MaxLocalTimers /\ Deliver(s) /\ UNCHANGED ext
    \/ GraphCallback
    \/ GraphTick
    \/ TimerFire /\ UNCHANGED ext
    \/ LocalTimerFire
    \/ GraphUnmount

GraphSpec == Init /\ [][GraphNext]_vars

----------------------------------------------------------------------------
\* Vocabulary of the properties

Range(seq) == { seq[i] : i \in 1..Len(seq) }
Count(c, seq) == Cardinality({ i \in 1..Len(seq) : seq[i] = c })

\* the step hands the hook a snapshot: one pushed by the agent, or an issued
\* setState taking effect
Delivery == last'.op \in {"deliver", "applySetState"}

\* the step starts a decay timer
TimerStarted == \E t \in timers' : t \notin timers

\* the step starts a broadcast to the registered callbacks
BroadcastStarted == ~bc.active /\ bc'.active

\* the step invokes callback c
Invokes(c) == bc.active /\ last'.op = "callback" /\ last'.arg = c

\* the step ends a broadcast; the callbacks it invoked, in order
BroadcastEnds == bc.active /\ ~bc'.active
AllInvoked == Append(bc.invoked, callbacks[bc.idx])

\* callback c was registered and no unsubscribe function made for it was called
Subscribed(c, hs, cs) ==
    /\ \E h \in 1..Len(hs) : hs[h] = c
    /\ \A h \in 1..Len(hs) : hs[h] = c => h \notin cs

----------------------------------------------------------------------------
\* C1 (as stated): in every reachable state, delivering a snapshot whose
\* active stage equals that of the preceding snapshot changes neither the pulse
\* nor its timer and invokes no callback.
C1_AsStated ==
    [][ (Delivery /\ CurrentNode(state') = CurrentNode(state))
            => (pulsingNode' = pulsingNode /\ ~TimerStarted /\ ~BroadcastStarted) ]_vars

\* C1 (amended): delivering a snapshot whose active stage equals that of the
\* preceding snapshot, while the previous-stage memory still holds that stage
\* (no reset() has cleared it since), does not start a decay timer, does not
\* change pulsingNode and invokes no callback.
C1_UnchangedStageIsNoOp ==
    [][ (Delivery /\ CurrentNode(state') = CurrentNode(state) /\ previousNode = CurrentNode(state))
            => (pulsingNode' = pulsingNode /\ ~TimerStarted /\ ~BroadcastStarted) ]_vars

\* an unchanged-stage snapshot (idle, then a snapshot without active_node) has
\* been delivered while idle was pulsing and a callback was registered
C1_Witness ==
    /\ last.op = "deliver"
    /\ state.active_node = Undefined
    /\ previousNode = "idle"
    /\ pulsingNode = "idle"
    /\ cleanup = NoCleanup
    /\ callbacks # <<>>

\* C2: from the detection of a transition until 1000 ms have passed without a
\* further transition pulsingNode is the stage transitioned to, and after that
\* it is null.
C2_PulseHoldsThenClears ==
    (phase = "mounted" /\ age >= 0)
        => /\ age < PULSE_MS => pulsingNode = CurrentNode(state)
           /\ age > PULSE_MS => pulsingNode = Null

\* the part of C2 that the code keeps: the pulse is never cleared sooner
C2_NeverSooner ==
    (phase = "mounted" /\ age >= 0 /\ age < PULSE_MS) => pulsingNode = CurrentNode(state)

\* C3: while the previous-stage memory is intact (no reset in between), a
\* delivered snapshot starts a broadcast exactly when its active stage differs
\* from that of the preceding snapshot; the broadcast carries the new stage
\* and invokes every callback that stays subscribed exactly once.
C3_OneBroadcastPerChange ==
    [][ /\ (Delivery /\ previousNode = CurrentNode(state) /\ callbacks # <<>>)
            => IF CurrentNode(state') # CurrentNode(state)
               THEN /\ BroadcastStarted
                    /\ bc'.node = CurrentNode(state')
                    /\ bc'.start = callbacks
                    /\ bc'.invoked = <<>>
               ELSE ~BroadcastStarted
        /\ bc.active => bc.node = CurrentNode(state)
        /\ BroadcastEnds
            => \A c \in Range(bc.start) :
                   Subscribed(c, handles', called') => Count(c, AllInvoked) = 1 ]_vars

\* a broadcast of the transition to auditor has ended with the invocation of a
\* callback that is still subscribed
C3_Witness ==
    /\ last.op = "callback"
    /\ ~bc.active
    /\ previousNode = "auditor"
    /\ state.active_node = "auditor"
    /\ Subscribed(last.arg, handles, called)

\* text t is query without its leading and trailing blanks
Trimmed(query, t) ==
    \E i \in 1..(Len(query) + 1), j \in 0..Len(query) :
        /\ t = SubSeq(query, i, j)
        /\ \A k \in 1..(i - 1) : query[k] = " "
        /\ \A k \in (j + 1)..Len(query) : query[k] = " "
        /\ t # <<>> => t[1] # " " /\ t[Len(t)] # " "

AllBlanks(query) == \A k \in 1..Len(query) : query[k] = " "

\* the calls the step issued to the agent
Issued == SubSeq(outbox', Len(outbox) + 1, Len(outbox'))

\* C4: sendQuery with a non-blank text issues exactly one setState, whose
\* value is the default snapshot with query set to the trimmed text, whatever
\* the snapshot was before, and after it exactly one run().
C4_SendQueryResetsThenRuns ==
    [][ (last'.op = "sendQuery" /\ ~AllBlanks(last'.arg))
            => /\ outbox' = outbox \o Issued
               /\ Len(Issued) = 2
               /\ Issued[1].op = "setState"
               /\ Trimmed(last'.arg, Issued[1].value.query)
               /\ Issued[1].value = [DEFAULT_STATE EXCEPT !.query = Issued[1].value.query]
               /\ Issued[1].value.active_node = "idle"
               /\ Issued[1].value.reasoning_trace = <<>>
               /\ Issued[1].value.tool_calls = <<>>
               /\ Issued[1].value.risk_score = 0
               /\ Issued[1].value.requires_backtrack = FALSE
               /\ Issued[1].value.backtrack_reason = Null
               /\ Issued[1].value.backtrack_count = 0
               /\ Issued[2].op = "run" ]_vars

\* sendQuery(" a b ") has returned while the snapshot held the residue of a run
C4_Witness ==
    /\ last.op = "sendQuery"
    /\ last.arg = <<" ", "a", " ", "b", " ">>
    /\ state.risk_score = 8
    /\ state.reasoning_trace # <<>>
    /\ CurrentNode(state) = "auditor"
    /\ outbox = << SetStateCall([DEFAULT_STATE EXCEPT !.query = <<"a", " ", "b">>]), RunCall >>

\* C5: a run() is issued only by sendQuery with a non-blank text, and only
\* after the resetting setState of the same call.
C5_ResetWriteBeforeRun ==
    [][ /\ \A i \in 1..Len(Issued) :
               Issued[i].op = "run"
                   => /\ last'.op = "sendQuery"
                      /\ \E j \in 1..(i - 1) :
                             /\ Issued[j].op = "setState"
                             /\ Issued[j].value.active_node = "idle"
        /\ (last'.op = "sendQuery" /\ ~AllBlanks(last'.arg))
               => \E i \in 1..Len(Issued) : Issued[i].op = "run" ]_vars

\* sendQuery has returned with its setState ahead of its run() in the calls
\* awaiting the agent
C5_Witness ==
    /\ last.op = "sendQuery"
    /\ Len(outbox) = 2
    /\ outbox[1].op = "setState"
    /\ outbox[2].op = "run"

\* C6: sendQuery with an empty or all-blank text changes nothing: no call is
\* issued to the agent, and the snapshot, the pulse, its timer, the
\* previous-stage memory and the registry stay as they were.
C6_BlankQueryIsNoOp ==
    [][ (last'.op = "sendQuery" /\ AllBlanks(last'.arg))
            => UNCHANGED <<phase, state, running, previousNode, pulsingNode, timers,
                           cleanup, callbacks, handles, called, bc, outbox, age>> ]_vars

\* sendQuery("  ") has returned while a pulse was active and a callback was
\* registered
C6_Witness ==
    /\ last.op = "sendQuery"
    /\ last.arg = <<" ", " ">>
    /\ pulsingNode = "scout"
    /\ timers # {}
    /\ callbacks # <<>>
    /\ outbox = <<>>

C8_UnsubscribedNotInvoked ==
    [][ /\ \A c \in Callbacks :
               Invokes(c) => \E h \in 1..Len(handles) : handles[h] = c /\ h \notin called
        /\ (Delivery /\ CurrentNode(state') # CurrentNode(state))
               => \A c \in Callbacks :
                      Subscribed(c, handles, called)
                          => BroadcastStarted /\ c \in Range(bc'.start)
        /\ BroadcastEnds
               => \A c \in Range(bc.start) :
                      Subscribed(c, handles', called') => c \in Range(AllInvoked) ]_vars

\* after cbA's unsubscribe function was called, a transition is being
\* broadcast to cbB alone
C8_Witness ==
    /\ handles = <<"cbA", "cbB">>
    /\ called = {1}
    /\ bc.active
    /\ bc.start = <<"cbB">>
    /\ last.op \in {"deliver", "applySetState"}

\* C9: a broadcast invokes every callback that was registered when it began
\* exactly once, whatever the callbacks unsubscribe meanwhile.
C9_AllRegisteredInvokedOnce ==
    [][ BroadcastEnds => \A c \in Range(bc.start) : Count(c, AllInvoked) = 1 ]_vars

\* registration j, made by the j-th onNodeChange call, is in place
InPlace(j, cs, es) == j \notin cs /\ SetHas(es, handles[j])

\* C10: an unsubscribe function removes its own registration and leaves every
\* other registration in place; called again, it leaves the registry as it is.
C10_UnsubscribeRemovesOwnRegistrationOnly ==
    [][ last'.op = "unsubscribe"
            => LET h == last'.arg
               IN  IF h \in called
                   THEN callbacks' = callbacks
                   ELSE /\ ~SetHas(callbacks', handles[h])
                        /\ \A j \in 1..Len(handles) :
                               (j # h /\ InPlace(j, called, callbacks))
                                   => InPlace(j, called', callbacks') ]_vars

C12_ResetStartsNoRun ==
    [][ last'.op = "reset"
            => /\ outbox' = outbox \o Issued
               /\ \A i \in 1..Len(Issued) : Issued[i].op # "run"
               /\ running' = running ]_vars

\* reset() has returned while a run was in flight
C12_Witness ==
    /\ last.op = "reset"
    /\ running
    /\ outbox = << SetStateCall(DEFAULT_STATE) >>

\* C13: once the hook is unmounted no decay timer is pending, whatever the
\* state it was unmounted in, and nothing changes pulsingNode any more.
C13_UnmountCancelsTimer ==
    [][ /\ phase' = "unmounted" => timers' = {}
        /\ phase = "unmounted" => pulsingNode' = pulsingNode ]_vars

\* the hook has been unmounted while scout was pulsing, its decay timer pending
C13_Witness ==
    /\ last.op = "unmount"
    /\ phase = "unmounted"
    /\ pulsingNode = "scout"
    /\ timers = {}

\* C14: in every state the view shows isLoading equal to the running flag,
\* currentNode equal to the snapshot's active stage (idle when the snapshot
\* names none) and isActive true exactly when currentNode is not idle,
\* whatever the pulse, the previous-stage memory and the registry hold; with
\* the default snapshot, state is the default, currentNode is idle and
\* isActive is false.
C14_DerivedView ==
    /\ View.isLoading = running
    /\ state.active_node # Undefined => View.currentNode = state.active_node
    /\ state.active_node = Undefined => View.currentNode = "idle"
    /\ View.isActive <=> View.currentNode # "idle"
    /\ state = DEFAULT_STATE
           => /\ View.state = DEFAULT_STATE
              /\ View.currentNode = "idle"
              /\ ~View.isActive

\* a run is in flight, the snapshot names no active stage, and reset() has
\* cleared the previous-stage memory
C14_Witness ==
    /\ phase = "mounted"
    /\ running
    /\ state.active_node = Undefined
    /\ previousNode = Null
    /\ View.isLoading
    /\ ~View.isActive

\* C15: when the run() that a sendQuery awaits rejects, the promise sendQuery
\* returned rejects with the same failure; when it resolves, so does the
\* promise.
C15_RunFailurePropagates ==
    last.op = "settle"
        => /\ last.arg.run.kind = "rejected" => last.arg.sendQuery = last.arg.run
           /\ last.arg.run.kind = "resolved" => last.arg.sendQuery.kind = "resolved"

\* the run started by a sendQuery has rejected with errB
C15_Witness ==
    /\ last.op = "settle"
    /\ last.arg.run = Rejected("errB")
    /\ last.arg.sendQuery = Rejected("errB")
    /\ ~running
    /\ state.query # <<>>

\* C16: once the effects of the first render have run, pulsingNode is the
\* current active node; when more than 1000 ms have passed since then without
\* a transition, pulsingNode is null.  (Checked on the behaviours without
\* transitions, QuietSpec.)
C16_MountPulsesThenClears ==
    phase = "mounted"
        => /\ last.op = "mount" => pulsingNode = CurrentNode(state)
           /\ age > PULSE_MS => pulsingNode = Null

\* the part of C16 that the code keeps: the initial stage pulses on mount
C16_MountPulses ==
    last.op = "mount" => (pulsingNode = CurrentNode(state) /\ timers # {})

\* C17: after the initial render pulsingNode is null, and it stays null until
\* the active stage changes: a step that makes it non-null changes the active
\* stage of a mounted hook.
C17_NoPulseBeforeFirstTransition ==
    [][ (pulsingNode = Null /\ pulsingNode' # Null)
            => (phase = "mounted" /\ CurrentNode(state') # CurrentNode(state)) ]_vars

\* C18: with no further transition, reset or unmount, a pulse is eventually
\* cleared, whatever snapshots are delivered meanwhile.  (Checked on the
\* behaviours without transitions, with the clock and the timers fair.)
C18_PulseEventuallyClears == (pulsingNode # Null) ~> (pulsingNode = Null)

\* C19: when reset() returns, the previous-stage memory is empty, pulsingNode
\* is null and no decay timer is pending.
C19_ResetCancelsTimer ==
    last.op = "reset"
        => /\ previousNode = Null
           /\ pulsingNode = Null
           /\ timers = {}

\* the part of C19 that the code keeps: a timer left pending by reset() never
\* clears a later pulse, because the effect run that starts a pulse first runs
\* the cleanup of the run before
C19_StaleTimerIsSwept ==
    [][ (pulsingNode' # Null /\ pulsingNode' # pulsingNode)
            => \A t \in timers' : t.remaining = PULSE_MS ]_vars

\* C20: the active stage the hook exposes (currentNode, the pulse, the value
\* handed to the callbacks) is one of idle, scout, strategist, auditor; a
\* snapshot whose active_node is missing or not one of these counts as idle.
C20_StageIsNodeType ==
    phase = "mounted"
        => /\ View.currentNode \in NodeType
           /\ pulsingNode \in NodeType \cup {Null}
           /\ bc.active => bc.node \in NodeType
           /\ state.active_node \notin NodeType => View.currentNode = "idle"

\* the part of C20 that the code keeps: a missing active_node counts as idle
C20_MissingStageIsIdle ==
    (phase = "mounted" /\ state.active_node = Undefined)
        => /\ View.currentNode = "idle"
           /\ ~View.isActive
           /\ pulsingNode \in {"idle", Null}
           /\ previousNode \in {"idle", Null}

C22_WitnessPending ==
    /\ last.op = "sendQuery"
    /\ outbox # <<>>
    /\ pulsingNode = "auditor"
    /\ timers # {}

\* C23: whenever pulsingNode is not null, a decay timer is pending that will
\* set it to null.
C23_PulseHasTimer ==
    (phase = "mounted" /\ pulsingNode # Null) => timers # {}

\* C24: at most one decay timer is pending at any time.
C24_AtMostOneTimer == Cardinality(timers) <= 1

\* a delivered transition to strategist has just started its decay timer,
\* which is the one pending timer and the one the effect's cleanup holds
C24_Witness ==
    /\ last.op = "deliver"
    /\ previousNode = "strategist"
    /\ age = 0
    /\ timers = {[id |-> 1, remaining |-> PULSE_MS]}
    /\ cleanup = 1

\* C25: when a setState issued by reset() or sendQuery is applied while the
\* active stage is not idle, the stage becomes idle and this is handled as a
\* transition: pulsingNode becomes idle with a fresh decay timer, the only one
\* pending, and a broadcast of idle starts over the registered callbacks, which
\* invokes each callback that stays subscribed once.
C25_WriteToIdleIsTransition ==
    [][ /\ (last'.op = "applySetState" /\ CurrentNode(state) # "idle")
            => /\ CurrentNode(state') = "idle"
               /\ previousNode' = "idle"
               /\ pulsingNode' = "idle"
               /\ timers' = {[id |-> cleanup', remaining |-> PULSE_MS]}
               /\ callbacks # <<>>
                      => /\ BroadcastStarted
                         /\ bc'.node = "idle"
                         /\ bc'.start = callbacks
        /\ (BroadcastEnds /\ bc.node = "idle")
            => \A c \in Range(bc.start) :
                   Subscribed(c, handles', called') => Count(c, AllInvoked) = 1 ]_vars

\* the write of a reset() called in the auditor stage has been applied and
\* idle is being broadcast
C25_Witness ==
    /\ last.op = "applySetState"
    /\ state = DEFAULT_STATE
    /\ pulsingNode = "idle"
    /\ age = 0
    /\ bc.active
    /\ bc.node = "idle"

\* the write of a sendQuery has been applied and idle is pulsing
C25_WitnessSendQuery ==
    /\ last.op = "applySetState"
    /\ state.query = <<"a", " ", "b">>
    /\ pulsingNode = "idle"
    /\ age = 0
    /\ outbox = << RunCall >>

\* run() calls made and not yet settled: those the agent has not taken up, and
\* the run in flight
RunsInFlight ==
    Cardinality({ i \in 1..Len(outbox) : outbox[i].op = "run" })
        + (IF running THEN 1 ELSE 0)

\* C26: with queries submitted through the Dashboard form, at most one run()
\* call is unsettled at any time.
C26_OneRunInFlight == RunsInFlight <= 1

\* the part of C26 that the code keeps: once the running flag is set, a submit
\* issues no call
C26_SubmitWhileLoadingIsNoOp ==
    [][ (last'.op = "submit" /\ running) => outbox' = outbox ]_vars

----------------------------------------------------------------------------
\* C27: a callback subscribed while a broadcast is in progress is not invoked
\* as part of that broadcast: every callback a broadcast invokes was
\* registered when the broadcast began.
C27_LateSubscriberWaits ==
    [][ \A c \in Callbacks : Invokes(c) => SetHas(bc.start, c) ]_vars

----------------------------------------------------------------------------
\* C28: reset() and sendQuery leave the observer set unchanged: the callbacks
\* subscribed before the call are the ones subscribed after it, and the
\* broadcast of the next detected transition goes over exactly them.
C28_ResetAndSendQueryKeepObservers ==
    [][ /\ last'.op \in {"reset", "sendQuery"}
            => (callbacks' = callbacks /\ handles' = handles /\ called' = called)
        /\ (last'.op # "reset" /\ previousNode' # previousNode)
            => (callbacks' = callbacks /\ bc'.start = callbacks) ]_vars

\* the write of a reset() made with two callbacks subscribed has been applied,
\* was detected as a transition, and its broadcast goes over both
C28_Witness ==
    /\ last.op = "applySetState"
    /\ state = DEFAULT_STATE
    /\ bc.active
    /\ bc.start = callbacks
    /\ Len(callbacks) = 2

\* sendQuery has issued its calls with two callbacks subscribed
C28_WitnessSendQuery ==
    /\ last.op = "sendQuery"
    /\ outbox # <<>>
    /\ Len(callbacks) = 2

----------------------------------------------------------------------------
C29_WitnessUnsubscribe ==
    /\ last.op = "unsubscribe"
    /\ last.arg = <<2, "cbA">>
    /\ inst[1].callbacks = <<"cbA">>
    /\ inst[2].callbacks = <<>>

----------------------------------------------------------------------------
\* C30: in NodeGraph a local-pulse timer is cancelled when a later transition
\* arrives and when NodeGraph unmounts: a timer that fires is the one of the
\* latest transition (no other is pending), and NodeGraph is mounted.
C30_LocalTimersAreCancelled ==
    [][ last'.op = "localTimer" => (Len(localTimers) = 1 /\ phase = "mounted") ]_vars

\* what hides an early clearing of localPulse: the pulse NodeGraph displays
\* is not changed by the timer of an earlier transition that fires before the
\* timer of the latest one is due
C30_EarlyClearIsMasked ==
    [][ (/\ last'.op = "localTimer"
         /\ Len(localTimers) > 1
         /\ localTimers[Len(localTimers)] > 0
         /\ phase = "mounted")
            => ActivePulse' = ActivePulse ]_vars

====
